---- MODULE Spec2Model ----
(***************************************************************************)
(* Model of the rate-limited concurrent batch dispatcher of the quandl     *)
(* crate: BatchQuery (builder state, run, worker closure) and the merge    *)
(* Iterator (try_next, next) of src/src/batch_query.rs.                    *)
(*                                                                         *)
(* Positions are 0-based as in the Rust code: the operation at position i  *)
(* of `queries` is queries[i + 1], shard j of `jobs` is jobs[j], the       *)
(* receiver at position p of `channels` is channels[p + 1].                *)
(***************************************************************************)
EXTENDS Integers, Sequences, FiniteSets, TLC

\* ------------------------------------------------------------------------
\* Bounds of the model
\* ------------------------------------------------------------------------
MaxQueries == 3
MaxThreads == 2

\* ------------------------------------------------------------------------
\* Inputs
\* ------------------------------------------------------------------------
\* api_key: Option<String>; NoKey stands for None, "A" and "B" are keys.
NoKey == "none"

\* A query: its api_key and whether the remote call fails (send() = Err).
QuerySet ==
    { [api_key |-> "A", fails |-> FALSE],
      [api_key |-> "B", fails |-> TRUE],
      [api_key |-> NoKey, fails |-> FALSE] }

\* (limit, timeout) tiers as pushed by BatchQuery::limit.
LimitsSet ==
    { <<>>,
      << <<2, 5>> >>,
      << <<1, 5>>, <<2, 10>> >>,
      << <<0, 1>> >> }

\* Values given to BatchQuery::offset: the default, and a multiple of every
\* non-zero limit of LimitsSet.
OffsetSet == {0, 2}

SeqsUpTo(S, n) == UNION { [1..m -> S] : m \in 0..n }

VARIABLES
    offset,            \* BatchQuery.offset
    limits,            \* BatchQuery.limits
    queries,           \* BatchQuery.queries
    threads,           \* BatchQuery.threads
    concurrent_calls,  \* BatchQuery.concurrent_calls
    phase,             \* "built" before run, "running" after
    keys,              \* HashMap<String, Mutex<usize>>: counter per key
    holder,            \* per key: shard of the worker holding the Mutex, or -1
    poisoned,          \* per key: the Mutex is poisoned
    jobs,              \* Vec<Vec<A>>: per shard the positions of its queries
    worker,            \* per shard: the state of the spawned thread
    chan,              \* per shard: items sent and not yet received
    index,             \* Iterator.index
    channels,          \* Iterator.channels: the shards of the receivers
    dropped,           \* the Iterator has been dropped
    cpc,               \* consumer: "idle", or "next" inside Iterator::next
    ret,               \* what the last try_next returned
    out,               \* every item the iterator returned so far, in order
    made               \* per key: number of calls counted so far in the run

config == <<offset, limits, queries, threads, concurrent_calls>>
registry == <<keys, holder, poisoned, made>>
iter == <<index, channels, dropped, cpc, ret, out>>
vars == <<config, phase, registry, jobs, worker, chan, iter>>

Shards == 0 .. (threads - 1)
NumQueries == Len(queries)
Query(i) == queries[i + 1]
KeyOf(i) == Query(i).api_key

\* api_call.send(): the Result of the query at position i.
SendResult(i) == [op |-> i, ok |-> ~Query(i).fails]

\* A worker: pc is where its thread is, i the number of operations of its
\* shard it is done with; for the call it is making, pre is the value of
\* the counter it read, ord the rank of the call among the calls counted on
\* its key, slept the tiers it slept for and ti the last of them.
NoWorker == [pc |-> "none", i |-> 0, ti |-> 0, pre |-> 0, ord |-> 0, slept |-> <<>>]
Spawned == [NoWorker EXCEPT !.pc = "loop"]

\* ------------------------------------------------------------------------
\* BatchQuery::new and the builder calls: a configured batch
\* ------------------------------------------------------------------------
Init ==
    /\ offset \in OffsetSet
    /\ limits \in LimitsSet
    /\ queries \in SeqsUpTo(QuerySet, MaxQueries)
    /\ threads \in 1..MaxThreads
    /\ concurrent_calls \in BOOLEAN
    /\ phase = "built"
    /\ keys = <<>>
    /\ holder = <<>>
    /\ poisoned = <<>>
    /\ made = <<>>
    /\ jobs = <<>>
    /\ worker = <<>>
    /\ chan = <<>>
    /\ index = 0
    /\ channels = <<>>
    /\ dropped = FALSE
    /\ cpc = "idle"
    /\ ret = "none"
    /\ out = <<>>

\* ------------------------------------------------------------------------
\* BatchQuery::run
\* ------------------------------------------------------------------------
\* The keys inserted by the registry scan.
ScannedKeysFirst ==
    IF NumQueries = 0 \/ KeyOf(0) = NoKey THEN {} ELSE {KeyOf(0)}
ScannedKeys == { KeyOf(i) : i \in { n \in 0..(NumQueries - 1) : KeyOf(n) # NoKey } }

\* jobs[index % self.threads].push(api_call.clone())
ShardOfFirstApart(i) == IF i = 0 THEN 0 ELSE threads - 1
ShardOfNext(i) == (i + 1) % threads
ShardOf(i) == i % threads

\* The positions pushed to shard j, in the order of the enumeration.
RECURSIVE Partition(_, _)
Partition(j, n) ==
    IF n = 0 THEN <<>>
    ELSE IF ShardOf(n - 1) = j THEN Append(Partition(j, n - 1), n - 1)
         ELSE Partition(j, n - 1)

\* iterator.channels: one receiver per non-empty shard, in shard order.
RECURSIVE ReceiversAll(_, _)
ReceiversAll(js, n) ==
    IF n = 0 THEN <<>> ELSE Append(ReceiversAll(js, n - 1), n - 1)

RECURSIVE Receivers(_, _)
Receivers(js, n) ==
    IF n = 0 THEN <<>>
    ELSE IF js[n - 1] # <<>> THEN Append(Receivers(js, n - 1), n - 1)
         ELSE Receivers(js, n - 1)

Run ==
    /\ phase = "built"
    /\ phase' = "running"
    /\ keys' = [k \in ScannedKeys |-> offset]
    /\ holder' = [k \in ScannedKeys |-> -1]
    /\ poisoned' = [k \in ScannedKeys |-> FALSE]
    /\ made' = [k \in ScannedKeys |-> 0]
    /\ LET js == [j \in Shards |-> Partition(j, NumQueries)] IN
         /\ jobs' = js
         /\ worker' = [j \in Shards |->
                IF js[j] # <<>> THEN Spawned ELSE NoWorker]
         /\ chan' = [j \in Shards |-> <<>>]
         /\ channels' = Receivers(js, threads)
    /\ index' = 0
    /\ UNCHANGED <<config, dropped, cpc, ret, out>>

\* ------------------------------------------------------------------------
\* The worker closure
\* ------------------------------------------------------------------------
\* The receiver of shard j is still owned by the iterator.
RxListed(j) == \E p \in 1..Len(channels) : channels[p] = j
RxAlive(j) == ~dropped /\ \E p \in 1..Len(channels) : channels[p] = j

\* The position in `queries` of the operation worker j is at.
Current(j) == jobs[j][worker[j].i + 1]

\* *calls: the counter of key k as read through the guard, before the
\* increment for the call.
CallsAfterIncrement(k) == keys[k] + 1
Calls(k) == keys[k]

\* The holder of the key's Mutex once worker j has incremented the counter:
\* the concurrent branch closes the scope of the guard before tx.send, the
\* serialized branch keeps it over tx.send.
ReleasedBeforeSend(j) == -1
HeldOverSend(j) == j
HolderAtSend(j) == IF concurrent_calls THEN -1 ELSE j

\* if *calls != 0 && *calls % limit == 0 { sleep }
TierHitOffByOne(calls, limit) == calls # 0 /\ limit # 0 /\ (calls + 1) % limit = 0
TierHitNoZeroTest(calls, limit) == limit # 0 /\ calls % limit = 0
TierHit(calls, limit) == calls # 0 /\ limit # 0 /\ calls % limit = 0

\* *calls % limit with limit = 0 aborts the thread.
RemPanics(calls, limit) == calls # 0 /\ limit = 0

\* The first tier at or after `from` at which the loop over limits stops
\* (to sleep or to abort), 0 when the loop runs to its end.
LoopStopBreak(calls, from) ==
    LET S == { t \in from..Len(limits) :
                 TierHit(calls, limits[t][1]) \/ RemPanics(calls, limits[t][1]) }
    IN IF S = {} \/ from > 1 THEN 0 ELSE CHOOSE t \in S : \A u \in S : t <= u
LoopStop(calls, from) ==
    LET S == { t \in from..Len(limits) :
                 TierHit(calls, limits[t][1]) \/ RemPanics(calls, limits[t][1]) }
    IN IF S = {} THEN 0 ELSE CHOOSE t \in S : \A u \in S : t <= u

\* *calls += 1
IncrementLost(calls) == calls
Increment(calls) == calls + 1

\* The loop over limits from tier `from` on, run by worker j under the Mutex
\* of key k, and the increment that follows it; w is the workers' state when
\* the loop is entered.
TierLoop(j, k, from, w) ==
    LET c == Calls(k)
        s == LoopStop(c, from)
    IN IF s = 0
       THEN \* *calls += 1; concurrent mode leaves the scope of the guard here
            /\ keys' = [keys EXCEPT ![k] = Increment(@)]
            /\ made' = [made EXCEPT ![k] = @ + 1]
            /\ worker' = [w EXCEPT ![j].pc = "send"]
            /\ holder' = [holder EXCEPT ![k] = HolderAtSend(j)]
            /\ UNCHANGED poisoned
       ELSE IF RemPanics(c, limits[s][1])
       THEN \* the thread unwinds with the guard alive: the Mutex is poisoned
            /\ worker' = [w EXCEPT ![j].pc = "panicked"]
            /\ holder' = [holder EXCEPT ![k] = -1]
            /\ poisoned' = [poisoned EXCEPT ![k] = TRUE]
            /\ UNCHANGED <<keys, made>>
       ELSE \* thread::sleep(duration) of tier s
            /\ worker' = [w EXCEPT ![j].pc = "sleep", ![j].ti = s,
                                   ![j].slept = Append(@, s)]
            /\ holder' = [holder EXCEPT ![k] = j]
            /\ UNCHANGED <<keys, made, poisoned>>

\* The worker is at an operation of its shard.
AtOperation(j) ==
    /\ phase = "running"
    /\ worker[j].pc = "loop"
    /\ worker[j].i < Len(jobs[j])

\* keys.get(key).lock(): take the key's Mutex, then run the loop over limits.
LockNoWait(j) ==
    /\ AtOperation(j)
    /\ LET k == KeyOf(Current(j)) IN
         /\ k # NoKey
         /\ \A h \in DOMAIN worker : holder[k] = h => worker[h].pc = "sleep"
         /\ ~poisoned[k]
         /\ TierLoop(j, k, 1,
                [worker EXCEPT ![j].pre = Calls(k), ![j].ord = made[k] + 1,
                               ![j].slept = <<>>, ![j].ti = 0])
    /\ UNCHANGED <<config, phase, jobs, chan, iter>>
LockGlobal(j) ==
    /\ AtOperation(j)
    /\ LET k == KeyOf(Current(j)) IN
         /\ k # NoKey
         /\ \A k2 \in DOMAIN holder : holder[k2] = -1
         /\ ~poisoned[k]
         /\ TierLoop(j, k, 1,
                [worker EXCEPT ![j].pre = Calls(k), ![j].ord = made[k] + 1,
                               ![j].slept = <<>>, ![j].ti = 0])
    /\ UNCHANGED <<config, phase, jobs, chan, iter>>
Lock(j) ==
    /\ AtOperation(j)
    /\ LET k == KeyOf(Current(j)) IN
         /\ k # NoKey
         /\ holder[k] = -1
         /\ ~poisoned[k]
         /\ TierLoop(j, k, 1,
                [worker EXCEPT ![j].pre = Calls(k), ![j].ord = made[k] + 1,
                               ![j].slept = <<>>, ![j].ti = 0])
    /\ UNCHANGED <<config, phase, jobs, chan, iter>>

\* lock() on a poisoned Mutex: expect("Poisoned Mutex") aborts the thread.
LockPoisoned(j) ==
    /\ AtOperation(j)
    /\ LET k == KeyOf(Current(j)) IN
         /\ k # NoKey
         /\ holder[k] = -1
         /\ poisoned[k]
    /\ worker' = [worker EXCEPT ![j].pc = "panicked"]
    /\ UNCHANGED <<config, phase, registry, jobs, chan, iter>>

\* thread::sleep returns: the loop over limits goes on with the next tier.
Wake(j) ==
    /\ phase = "running"
    /\ worker[j].pc = "sleep"
    /\ TierLoop(j, KeyOf(Current(j)), worker[j].ti + 1, worker)
    /\ UNCHANGED <<config, phase, jobs, chan, iter>>

SendLeaksLock(j) ==
    /\ phase = "running"
    /\ worker[j].pc = "send"
    /\ LET k == KeyOf(Current(j))
           held == holder[k] = j
       IN IF RxAlive(j)
          THEN /\ chan' = [chan EXCEPT ![j] = Append(@, SendResult(Current(j)))]
               /\ worker' = [worker EXCEPT ![j] = [Spawned EXCEPT !.i = worker[j].i + 1]]
               /\ holder' = [holder EXCEPT ![k] = IF held THEN -1 ELSE @]
               /\ UNCHANGED poisoned
          ELSE /\ worker' = [worker EXCEPT ![j].pc = "panicked"]
               /\ UNCHANGED <<holder, poisoned, chan>>
    /\ UNCHANGED <<config, phase, keys, made, jobs, iter>>

SendDropsErr(j) ==
    /\ phase = "running"
    /\ worker[j].pc = "send"
    /\ LET k == KeyOf(Current(j))
           held == holder[k] = j
       IN IF RxAlive(j) \/ Query(Current(j)).fails
          THEN /\ chan' = [chan EXCEPT ![j] =
                     IF Query(Current(j)).fails THEN @
                     ELSE Append(@, SendResult(Current(j)))]
               /\ worker' = [worker EXCEPT ![j] = [Spawned EXCEPT !.i = worker[j].i + 1]]
               /\ holder' = [holder EXCEPT ![k] = IF held THEN -1 ELSE @]
               /\ UNCHANGED poisoned
          ELSE /\ worker' = [worker EXCEPT ![j].pc = "panicked"]
               /\ holder' = [holder EXCEPT ![k] = IF held THEN -1 ELSE @]
               /\ poisoned' = [poisoned EXCEPT ![k] = IF held THEN TRUE ELSE @]
               /\ UNCHANGED chan
    /\ UNCHANGED <<config, phase, keys, made, jobs, iter>>

\* tx.send(api_call.send()): the fetch returns and its Result is sent; the
\* serialized branch drops the guard at the end of its scope.  A send to a
\* dropped receiver aborts the thread.
Send(j) ==
    /\ phase = "running"
    /\ worker[j].pc = "send"
    /\ LET k == KeyOf(Current(j))
           held == holder[k] = j
       IN IF RxAlive(j)
          THEN /\ chan' = [chan EXCEPT ![j] = Append(@, SendResult(Current(j)))]
               /\ worker' = [worker EXCEPT ![j] = [Spawned EXCEPT !.i = worker[j].i + 1]]
               /\ holder' = [holder EXCEPT ![k] = IF held THEN -1 ELSE @]
               /\ UNCHANGED poisoned
          ELSE /\ worker' = [worker EXCEPT ![j].pc = "panicked"]
               /\ holder' = [holder EXCEPT ![k] = IF held THEN -1 ELSE @]
               /\ poisoned' = [poisoned EXCEPT ![k] = IF held THEN TRUE ELSE @]
               /\ UNCHANGED chan
    /\ UNCHANGED <<config, phase, keys, made, jobs, iter>>

SkipCounted(j) ==
    /\ AtOperation(j)
    /\ KeyOf(Current(j)) = NoKey
    /\ worker' = [worker EXCEPT ![j].i = @ + 1]
    /\ keys' = [k \in DOMAIN keys |-> keys[k] + 1]
    /\ UNCHANGED <<config, phase, holder, poisoned, made, jobs, chan, iter>>

\* An operation whose api_key is None: the `if let Some(key)` has no else
\* branch, the loop goes on to the next operation.
Skip(j) ==
    /\ AtOperation(j)
    /\ KeyOf(Current(j)) = NoKey
    /\ worker' = [worker EXCEPT ![j].i = @ + 1]
    /\ UNCHANGED <<config, phase, registry, jobs, chan, iter>>

\* The for loop over the shard ends: the closure returns and tx is dropped.
Exit(j) ==
    /\ phase = "running"
    /\ worker[j].pc = "loop"
    /\ worker[j].i = Len(jobs[j])
    /\ worker' = [worker EXCEPT ![j].pc = "done"]
    /\ UNCHANGED <<config, phase, registry, jobs, chan, iter>>

\* ------------------------------------------------------------------------
\* Iterator
\* ------------------------------------------------------------------------
\* The sender of shard j is gone.
EmptyIsDisconnected(j) == TRUE
Disconnected(j) == worker[j].pc \in {"done", "panicked"}

\* Iterator::try_next on (idx, chs): what it returns, and the fields and the
\* polled channel it leaves.  rcv is the shard an item was received from,
\* seen the number of channels inspected (calls of try_recv).
RECURSIVE Rotate(_, _, _)
Rotate(idx, chs, left) ==
    IF chs = <<>> \/ left = 0
    THEN [r |-> "exhausted", index |-> idx, channels |-> <<>>, rcv |-> -1, seen |-> 0]
    ELSE LET j == chs[idx + 1] IN
         IF chan[j] # <<>>
         THEN [r |-> "item", index |-> (idx + 1) % Len(chs), channels |-> chs,
               rcv |-> j, seen |-> 1]
         ELSE IF Disconnected(j)
         THEN LET res == Rotate((idx + 1) % Len(chs), chs, left - 1)
              IN [res EXCEPT !.seen = @ + 1]
         ELSE [r |-> "notready", index |-> idx, channels |-> chs, rcv |-> -1, seen |-> 1]
TryNextFromRotate(idx, chs) == Rotate(idx, chs, Len(chs) + 1)

RECURSIVE TryNextFromAnyReady(_, _)
TryNextFromAnyReady(idx, chs) ==
    IF chs = <<>>
    THEN [r |-> "exhausted", index |-> idx, channels |-> chs, rcv |-> -1, seen |-> 0]
    ELSE LET j == chs[idx + 1]
             ready == { p \in 1..Len(chs) : chan[chs[p]] # <<>> }
         IN
         IF chan[j] # <<>>
         THEN [r |-> "item", index |-> (idx + 1) % Len(chs), channels |-> chs,
               rcv |-> j, seen |-> 1]
         ELSE IF Disconnected(j)
         THEN LET t == SubSeq(chs, 1, idx) IN
              IF t = <<>>
              THEN [r |-> "exhausted", index |-> idx, channels |-> t, rcv |-> -1,
                    seen |-> 1]
              ELSE LET res == TryNextFromAnyReady(0, t) IN [res EXCEPT !.seen = @ + 1]
         ELSE IF ready # {}
         THEN [r |-> "item", index |-> idx, channels |-> chs,
               rcv |-> chs[CHOOSE p \in ready : TRUE], seen |-> 1]
         ELSE [r |-> "notready", index |-> idx, channels |-> chs, rcv |-> -1, seen |-> 1]

\* if self.channels.is_empty() { return None; }
NoChannelsRearm(idx, chs) ==
    [r |-> "notready", index |-> idx, channels |-> chs, rcv |-> -1, seen |-> 0]
NoChannels(idx, chs) ==
    [r |-> "exhausted", index |-> idx, channels |-> chs, rcv |-> -1, seen |-> 0]

\* Ok(item): self.index = (self.index + 1) % self.channels.len()
OkArmNoWrap(idx, chs) ==
    [r |-> "item", index |-> idx + 1, channels |-> chs, rcv |-> chs[idx + 1], seen |-> 1]
OkArmSkip(idx, chs) ==
    [r |-> "item", index |-> (idx + 2) % Len(chs), channels |-> chs,
     rcv |-> chs[idx + 1], seen |-> 1]
OkArmNoAdvance(idx, chs) ==
    [r |-> "item", index |-> idx, channels |-> chs, rcv |-> chs[idx + 1], seen |-> 1]
OkArm(idx, chs) ==
    [r |-> "item", index |-> (idx + 1) % Len(chs), channels |-> chs,
     rcv |-> chs[idx + 1], seen |-> 1]

\* Err(Disconnected): self.channels.truncate(self.index)
TruncateOne(idx, chs) == SubSeq(chs, 1, idx) \o SubSeq(chs, idx + 2, Len(chs))
Truncate(idx, chs) == SubSeq(chs, 1, idx)

\* Err(Empty) => return Some(None)
EmptyArmAdvance(idx, chs) ==
    [r |-> "notready", index |-> (idx + 1) % Len(chs), channels |-> chs,
     rcv |-> -1, seen |-> 1]
EmptyArm(idx, chs) ==
    [r |-> "notready", index |-> idx, channels |-> chs, rcv |-> -1, seen |-> 1]

RECURSIVE TryNextFrom(_, _)
TryNextFrom(idx, chs) ==
    IF chs = <<>>
    THEN NoChannels(idx, chs)
    ELSE LET j == chs[idx + 1] IN
         IF chan[j] # <<>>
         THEN OkArm(idx, chs)
         ELSE IF Disconnected(j)
         THEN LET t == Truncate(idx, chs) IN
              IF t = <<>>
              THEN [r |-> "exhausted", index |-> idx, channels |-> t, rcv |-> -1,
                    seen |-> 1]
              ELSE LET res == TryNextFrom(0, t) IN [res EXCEPT !.seen = @ + 1]
         ELSE EmptyArm(idx, chs)

\* The effect of one call of try_next on the state.
PollNewest(res) ==
    /\ index' = res.index
    /\ channels' = res.channels
    /\ ret' = res.r
    /\ IF res.r = "item"
       THEN LET q == chan[res.rcv] IN
            /\ out' = Append(out, q[Len(q)])
            /\ chan' = [chan EXCEPT ![res.rcv] = SubSeq(q, 1, Len(q) - 1)]
       ELSE UNCHANGED <<out, chan>>
Poll(res) ==
    /\ index' = res.index
    /\ channels' = res.channels
    /\ ret' = res.r
    /\ IF res.r = "item"
       THEN /\ out' = Append(out, Head(chan[res.rcv]))
            /\ chan' = [chan EXCEPT ![res.rcv] = Tail(@)]
       ELSE UNCHANGED <<out, chan>>

\* The consumer calls try_next.
TryNext ==
    /\ phase = "running"
    /\ ~dropped
    /\ cpc = "idle"
    /\ LET res == TryNextFrom(index, channels) IN Poll(res)
    /\ UNCHANGED <<config, phase, registry, jobs, worker, dropped, cpc>>

\* One turn of the loop of Iterator::next: it returns on an item or on None
\* and yields and polls again on Some(None).
IterNext ==
    /\ phase = "running"
    /\ ~dropped
    /\ LET res == TryNextFrom(index, channels) IN
         /\ Poll(res)
         /\ cpc' = IF res.r = "notready" THEN "next" ELSE "idle"
    /\ UNCHANGED <<config, phase, registry, jobs, worker, dropped>>

\* The consumer drops the iterator, and every receiver with it.
Drop ==
    /\ phase = "running"
    /\ ~dropped
    /\ cpc = "idle"
    /\ dropped' = TRUE
    /\ UNCHANGED <<config, phase, registry, jobs, worker, chan,
                   index, channels, cpc, ret, out>>

Next ==
    \/ Run
    \/ \E j \in Shards : Lock(j)
    \/ \E j \in Shards : LockPoisoned(j)
    \/ \E j \in Shards : Wake(j)
    \/ \E j \in Shards : Send(j)
    \/ \E j \in Shards : Skip(j)
    \/ \E j \in Shards : Exit(j)
    \/ TryNext
    \/ IterNext

Spec == Init /\ [][Next]_vars

\* The same with a consumer that may drop the iterator.
NextDrop == Next \/ Drop
SpecDrop == Init /\ [][NextDrop]_vars

\* One more thread and one more operation than the bounds, for batches of
\* operations with one key or none and the single tier (2, 5s): the runs in
\* which the iterator drops the receiver of a worker that is still sending
\* while another receiver stays alive.
InitWide ==
    /\ offset = 0
    /\ limits = << <<2, 5>> >>
    /\ queries \in [1..(MaxQueries + 1) ->
                      { q \in QuerySet : q.api_key \in {"A", NoKey} }]
    /\ threads = MaxThreads + 1
    /\ concurrent_calls \in BOOLEAN
    /\ phase = "built"
    /\ keys = <<>>
    /\ holder = <<>>
    /\ poisoned = <<>>
    /\ made = <<>>
    /\ jobs = <<>>
    /\ worker = <<>>
    /\ chan = <<>>
    /\ index = 0
    /\ channels = <<>>
    /\ dropped = FALSE
    /\ cpc = "idle"
    /\ ret = "none"
    /\ out = <<>>

SpecWide == InitWide /\ [][Next]_vars

\* ------------------------------------------------------------------------
\* The builder: BatchQuery::new and the setters called before run
\* ------------------------------------------------------------------------
\* BatchQuery::new(): threads is num_cpus::get(), at least 1.
New ==
    /\ offset = 0
    /\ limits = <<>>
    /\ queries = <<>>
    /\ threads \in 1..MaxThreads
    /\ concurrent_calls = FALSE
    /\ phase = "built"
    /\ keys = <<>>
    /\ holder = <<>>
    /\ poisoned = <<>>
    /\ made = <<>>
    /\ jobs = <<>>
    /\ worker = <<>>
    /\ chan = <<>>
    /\ index = 0
    /\ channels = <<>>
    /\ dropped = FALSE
    /\ cpc = "idle"
    /\ ret = "none"
    /\ out = <<>>

\* What a setter leaves alone besides the fields of the BatchQuery.
notBuilt == <<phase, registry, jobs, worker, chan, iter>>

\* self.offset = offset
BuildOffsetClearsLimits(o) ==
    /\ phase = "built"
    /\ offset' = o
    /\ limits' = <<>>
    /\ UNCHANGED <<queries, threads, concurrent_calls, notBuilt>>
BuildOffset(o) ==
    /\ phase = "built"
    /\ offset' = o
    /\ UNCHANGED <<limits, queries, threads, concurrent_calls, notBuilt>>

\* self.limits.push((limit, Duration::new(timeout, 0))): any limit is taken.
BuildLimit(limit, timeout) ==
    /\ phase = "built"
    /\ \E ls \in LimitsSet :
          /\ Len(ls) > Len(limits)
          /\ SubSeq(ls, 1, Len(limits) + 1) = Append(limits, <<limit, timeout>>)
    /\ limits' = Append(limits, <<limit, timeout>>)
    /\ UNCHANGED <<offset, queries, threads, concurrent_calls, notBuilt>>

\* self.queries.push(query)
BuildQuery(q) ==
    /\ phase = "built"
    /\ Len(queries) < MaxQueries
    /\ queries' = Append(queries, q)
    /\ UNCHANGED <<offset, limits, threads, concurrent_calls, notBuilt>>

\* self.queries.extend_from_slice(queries)
BuildQueries(qs) ==
    /\ phase = "built"
    /\ Len(queries) + Len(qs) <= MaxQueries
    /\ queries' = queries \o qs
    /\ UNCHANGED <<offset, limits, threads, concurrent_calls, notBuilt>>

\* assert!(threads > 0); self.threads = threads.  A failed assert aborts the
\* caller with the BatchQuery borrowed: run is not reached.
BuildThreadsUnchecked(t) ==
    /\ phase = "built"
    /\ threads' = t
    /\ UNCHANGED <<offset, limits, queries, concurrent_calls, notBuilt>>
BuildThreads(t) ==
    /\ phase = "built"
    /\ IF t > 0
       THEN /\ threads' = t
            /\ UNCHANGED phase
       ELSE /\ phase' = "failed"
            /\ UNCHANGED threads
    /\ UNCHANGED <<offset, limits, queries, concurrent_calls,
                   registry, jobs, worker, chan, iter>>

\* self.concurrent_calls = true
BuildConcurrentCalls ==
    /\ phase = "built"
    /\ concurrent_calls' = TRUE
    /\ UNCHANGED <<offset, limits, queries, threads, notBuilt>>

Build ==
    \/ \E o \in OffsetSet : BuildOffset(o)
    \/ \E l \in 0..2, d \in {1, 5, 10} : BuildLimit(l, d)
    \/ \E q \in QuerySet : BuildQuery(q)
    \/ \E qs \in SeqsUpTo(QuerySet, MaxQueries) : BuildQueries(qs)
    \/ \E t \in 0..MaxThreads : BuildThreads(t)
    \/ BuildConcurrentCalls

\* A program that creates a BatchQuery, configures it and runs it.
NextBuild == Build \/ Next
SpecBuild == New /\ [][NextBuild]_vars

\* ------------------------------------------------------------------------
\* Vocabulary of the properties
\* ------------------------------------------------------------------------
Range(f) == { f[x] : x \in DOMAIN f }

\* The spawned workers (none before run).
Workers == { j \in DOMAIN worker : worker[j].pc # "none" }

\* The last poll reported the iterator exhausted.
Exhausted == phase = "running" /\ ret = "exhausted"

\* The thread of worker j has ended: the closure returned or aborted.
Ended(j) == worker[j].pc = "done" \/ worker[j].pc = "panicked"

\* No worker thread has aborted.
NoAbort == \A j \in Workers : worker[j].pc # "panicked"

\* The Result of every operation of the batch, in submission order.
AllResults == [n \in 1..NumQueries |-> SendResult(n - 1)]

HasKey(r) == KeyOf(r.op) # NoKey

\* The Results of the operations that carry an api_key, in submission order.
KeyedResults == SelectSeq(AllResults, HasKey)

\* c is a multiple of t.
MultipleOf(c, t) == \E m \in 0..c : c = m * t

\* The tiers, in insertion order, whose condition the counter value c meets.
RECURSIVE TiersMet(_, _)
TiersMet(c, n) ==
    IF n = 0 THEN <<>>
    ELSE IF c # 0 /\ MultipleOf(c, limits[n][1]) THEN Append(TiersMet(c, n - 1), n)
         ELSE TiersMet(c, n - 1)

\* Worker j is executing the fetch of a call: the loop over limits is over.
Calling(j) == worker[j].pc = "send"

\* Worker j is in the sleep of a tier.
Sleeping(j) == worker[j].pc = "sleep"

\* With one worker the iterator returns the Results of the operations that
\* carry an api_key, in submission order.
SingleWorkerOutput ==
    (Exhausted /\ threads = 1 /\ NoAbort) => out = KeyedResults

\* When every operation carries an api_key and no worker aborts, the iterator
\* returns every Result, in submission order, for every worker count.
AllKeyedInOrder ==
    (Exhausted /\ NoAbort /\ KeyedResults = AllResults) => out = AllResults

\* ------------------------------------------------------------------------
\* C1: for 1 <= T <= N and no worker abort, consuming the iterator until it
\* reports exhausted has produced exactly N results, none of them twice.
\* ------------------------------------------------------------------------
C1_ExactlyNResults ==
    (Exhausted /\ NoAbort /\ 1 <= threads /\ threads <= NumQueries)
        => /\ Len(out) = NumQueries
           /\ \A p, q \in 1..Len(out) : out[p] = out[q] => p = q

\* ------------------------------------------------------------------------
\* C2: every operation without an api_key that a worker is done with has had
\* its Result pushed onto the worker's channel (where it waits, or from
\* where the iterator has received it).
\* ------------------------------------------------------------------------
C2_KeylessResultPushed ==
    \A j \in Workers : \A n \in 1..worker[j].i :
        KeyOf(jobs[j][n]) = NoKey
            => SendResult(jobs[j][n]) \in Range(chan[j]) \cup Range(out)

\* ------------------------------------------------------------------------
\* C3: with worker count 1, the results the iterator has produced when it
\* reports exhausted are the operations' results in submission order.
\* ------------------------------------------------------------------------
C3_SingleWorkerSubmissionOrder ==
    (Exhausted /\ NoAbort /\ threads = 1) => out = AllResults

\* ------------------------------------------------------------------------
\* C4: for every worker count the sequence of results is the one a single
\* worker gives (SingleWorkerOutput): the results in the order of the batch.
\* ------------------------------------------------------------------------
C4_SameSequenceAsSingleWorker ==
    (Exhausted /\ NoAbort) => out = KeyedResults

\* ------------------------------------------------------------------------
\* C5: with more than one worker the multiset of results does not depend on
\* the worker count: it is the multiset of the individually computed
\* results of the operations, as it has to be with worker count N.
\* ------------------------------------------------------------------------
C5_SameMultiset ==
    (Exhausted /\ NoAbort /\ threads > 1 /\ NumQueries > 1)
        => \A r \in Range(AllResults) \cup Range(out) :
              Cardinality({ p \in 1..Len(out) : out[p] = r })
                  = Cardinality({ n \in 1..NumQueries : AllResults[n] = r })

\* ------------------------------------------------------------------------
\* C6: within a shard results are sent and received in submission order:
\* what the iterator has returned from shard j followed by what waits in
\* channel j is in increasing order of position in the batch.
\* ------------------------------------------------------------------------
FromShard(j) ==
    LET InShard(r) == ShardOf(r.op) = j IN SelectSeq(out, InShard) \o chan[j]

C6_ShardOrder ==
    \A j \in Workers :
        LET s == FromShard(j) IN
        \A p, q \in 1..Len(s) : p < q => s[p].op < s[q].op

C6_Witness ==
    \E p, q \in 1..Len(out) :
        p < q /\ ShardOf(out[p].op) = ShardOf(out[q].op) /\ threads > 1

\* ------------------------------------------------------------------------
\* C7: the cooldown of a tier precedes a credentialed call iff the counter
\* value read for the call is non-zero and a multiple of the threshold; with
\* the single tier (2, 5s) and offset 0 it precedes the 3rd call and neither
\* the 1st nor the 2nd.
\* ------------------------------------------------------------------------
C7_CooldownIff ==
    \A j \in Workers :
        /\ Calling(j) =>
             \A t \in 1..Len(limits) :
                 (t \in Range(worker[j].slept))
                     <=> (worker[j].pre # 0 /\ MultipleOf(worker[j].pre, limits[t][1]))
        /\ Sleeping(j) =>
             /\ worker[j].pre # 0
             /\ MultipleOf(worker[j].pre, limits[worker[j].ti][1])
        /\ (Calling(j) /\ limits = << <<2, 5>> >> /\ offset = 0 /\ worker[j].ord <= 4)
             => (worker[j].slept # <<>> <=> worker[j].ord = 3)

C7_Witness ==
    \E j \in Workers :
        /\ Calling(j)
        /\ limits = << <<2, 5>> >> /\ offset = 0 /\ threads = 1
        /\ worker[j].ord = 3
        /\ worker[j].slept = <<1>>

\* ------------------------------------------------------------------------
\* C8: the counter starts at the offset and is read before it is
\* incremented: the k-th call on a credential is checked against
\* offset + k - 1, so an offset that is a non-zero multiple of a threshold
\* puts the cooldown before the first call of the run.
\* ------------------------------------------------------------------------
C8_CheckedBeforeIncrement ==
    \A j \in Workers :
        (Calling(j) \/ Sleeping(j)) =>
            /\ worker[j].pre = offset + worker[j].ord - 1
            /\ (worker[j].ord = 1 /\ offset # 0
                  /\ \E t \in 1..Len(limits) :
                        limits[t][1] # 0 /\ MultipleOf(offset, limits[t][1]))
                 => worker[j].slept # <<>>

C8_Witness ==
    \E j \in Workers :
        /\ Calling(j)
        /\ offset = 2
        /\ worker[j].ord = 1
        /\ worker[j].slept # <<>>

\* ------------------------------------------------------------------------
\* C9: the tiers are evaluated in insertion order, each on its own: the
\* cooldowns that precede a call are those of all the tiers the counter
\* value meets, in insertion order, and a sleeping worker has gone through
\* those up to the tier it sleeps for.
\* ------------------------------------------------------------------------
C9_AllTiersInOrder ==
    \A j \in Workers :
        LET met == TiersMet(worker[j].pre, Len(limits)) IN
        /\ Calling(j) => worker[j].slept = met
        /\ Sleeping(j) =>
             /\ Len(worker[j].slept) <= Len(met)
             /\ worker[j].slept = SubSeq(met, 1, Len(worker[j].slept))
             /\ worker[j].slept[Len(worker[j].slept)] = worker[j].ti

C9_Witness ==
    \E j \in Workers :
        /\ Calling(j)
        /\ worker[j].slept = <<1, 2>>
        /\ limits[1][1] # limits[2][1]

\* ------------------------------------------------------------------------
\* C10: in serialized mode a worker holds the lock of its credential from
\* the cooldown check to the end of the fetch, so no two workers execute a
\* fetch for the same credential at the same time.
\* ------------------------------------------------------------------------
C10_SerializedNoOverlap ==
    ~concurrent_calls =>
        /\ \A j \in Workers :
              (Calling(j) \/ Sleeping(j)) => holder[KeyOf(Current(j))] = j
        /\ \A j1, j2 \in Workers :
              (Calling(j1) /\ Calling(j2) /\ KeyOf(Current(j1)) = KeyOf(Current(j2)))
                  => j1 = j2

\* A worker executes a fetch while another one is at an operation of the
\* same credential and cannot take its lock.
C10_Witness ==
    /\ ~concurrent_calls
    /\ \E j1, j2 \in Workers :
          /\ j1 # j2
          /\ Calling(j1)
          /\ worker[j2].pc = "loop"
          /\ worker[j2].i < Len(jobs[j2])
          /\ KeyOf(Current(j2)) = KeyOf(Current(j1))
          /\ ~ENABLED Lock(j2)

\* ------------------------------------------------------------------------
\* C11: in concurrent mode a worker holds the lock of its credential during
\* the cooldowns and the increment and no longer while it executes the
\* fetch, so two workers can execute fetches for one credential at once.
\* ------------------------------------------------------------------------
C11_ConcurrentReleasedBeforeFetch ==
    concurrent_calls =>
        \A j \in Workers :
            /\ Sleeping(j) => holder[KeyOf(Current(j))] = j
            /\ Calling(j) => holder[KeyOf(Current(j))] # j

C11_Witness ==
    /\ concurrent_calls
    /\ \E j1, j2 \in Workers :
          /\ j1 # j2
          /\ Calling(j1) /\ Calling(j2)
          /\ KeyOf(Current(j1)) = KeyOf(Current(j2))

\* ------------------------------------------------------------------------
\* C12: an operation without an api_key triggers no cooldown and touches no
\* counter: no worker sleeps or counts a call at such an operation, and as
\* long as no worker aborts each counter is the offset plus the number of
\* operations with that key counted so far.
\* ------------------------------------------------------------------------
\* The operations with key k that worker j has counted a call for.
Counted(j, k) ==
    { n \in 1..Len(jobs[j]) :
        /\ KeyOf(jobs[j][n]) = k
        /\ \/ n <= worker[j].i
           \/ n = worker[j].i + 1 /\ Calling(j) }

RECURSIVE SumCounted(_, _)
SumCounted(k, n) ==
    IF n = 0 THEN 0
    ELSE SumCounted(k, n - 1)
           + (IF (n - 1) \in Workers THEN Cardinality(Counted(n - 1, k)) ELSE 0)

C12_KeylessBypassesLimiter ==
    /\ \A j \in Workers :
          (Sleeping(j) \/ Calling(j)) => KeyOf(Current(j)) # NoKey
    /\ NoKey \notin DOMAIN keys
    /\ (phase = "running" /\ NoAbort) =>
          \A k \in DOMAIN keys : keys[k] = offset + SumCounted(k, threads)

\* A worker is past an operation without api_key of a batch whose tiers and
\* offset would put a cooldown before a first credentialed call.
C12_Witness ==
    \E j \in Workers :
        /\ worker[j].i >= 1
        /\ KeyOf(jobs[j][1]) = NoKey
        /\ offset = 2
        /\ limits = << <<1, 5>>, <<2, 10>> >>
        /\ DOMAIN keys # {}

\* ------------------------------------------------------------------------
\* C13 as stated: try_next does not report exhausted while the channel of
\* some shard is still open (here for the batches whose operations all carry
\* an api_key, in the runs where no worker aborts).
\* ------------------------------------------------------------------------
C13_NotExhaustedWhileAnyOpen ==
    (Exhausted /\ NoAbort /\ KeyedResults = AllResults)
        => \A j \in Workers : Ended(j)

\* C13 as amended: try_next does not report exhausted while the channel at
\* position 0 (that of shard 0) is still open; the channels after it may be.
C13_NotExhaustedWhileFirstOpen ==
    Exhausted => /\ channels = <<>>
                 /\ \A j \in Workers : j = 0 => Ended(j)

C13_Witness ==
    /\ Exhausted
    /\ Len(out) = NumQueries
    /\ \E j \in Workers : ~Ended(j)

\* ------------------------------------------------------------------------
\* C14: try_next does not block: in every state a call returns an item,
\* not-ready or exhausted after inspecting at most len(channels) channels,
\* each inspection that does not end the call having shortened the list.
\* ------------------------------------------------------------------------
C14_TryNextBounded ==
    phase = "running" =>
        LET res == TryNextFrom(index, channels) IN
        /\ res.r \in {"item", "notready", "exhausted"}
        /\ res.seen <= Len(channels)
        /\ res.seen >= 1 => Len(res.channels) + res.seen - 1 <= Len(channels)

\* A call that goes round the loop twice: the channel at the cursor is
\* closed and drained, the list is cut and channel 0 is inspected.
C14_Witness ==
    /\ phase = "running"
    /\ TryNextFrom(index, channels).seen = 2

\* ------------------------------------------------------------------------
\* C15: while Iterator::next waits for the channel at the cursor, which is
\* open and empty, it stays in its loop, returns no item (not even one that
\* is ready in a channel at another position) and leaves the cursor and the
\* channel list as they are.
\* ------------------------------------------------------------------------
\* The channel at the cursor is open and has no item.
CursorWaiting ==
    /\ phase = "running"
    /\ channels # <<>>
    /\ chan[channels[index + 1]] = <<>>
    /\ ~Ended(channels[index + 1])

C15_NextWaitsAtCursor ==
    [][(cpc = "next" /\ CursorWaiting)
          => /\ index' = index
             /\ channels' = channels
             /\ out' = out
             /\ cpc' = "next"]_vars

\* next waits at the cursor while an item is ready at another position.
C15_Witness ==
    /\ cpc = "next"
    /\ CursorWaiting
    /\ \E p \in 1..Len(channels) : chan[channels[p]] # <<>>

\* ------------------------------------------------------------------------
\* C16: a fetch that fails is sent on the worker's channel as an error value
\* like a success: the worker goes on, no worker aborts because of it, and
\* the iterator returns as many results as there are operations.
\* ------------------------------------------------------------------------
\* Every operation of the batch carries an api_key.
AllKeyed == KeyedResults = AllResults

\* No tier has the threshold 0.
ZeroFree == \A t \in 1..Len(limits) : limits[t][1] # 0

C16_FailureDeliveredLikeSuccess ==
    /\ \A j \in Workers : \A n \in 1..worker[j].i :
          (KeyOf(jobs[j][n]) # NoKey /\ Query(jobs[j][n]).fails)
              => [op |-> jobs[j][n], ok |-> FALSE] \in Range(chan[j]) \cup Range(out)
    /\ (AllKeyed /\ ZeroFree) => NoAbort
    /\ (Exhausted /\ NoAbort /\ AllKeyed) => Len(out) = NumQueries

\* The iterator has returned an error value and, after it, the result of a
\* later operation of the same shard, next to a result of another shard.
C16_Witness ==
    \E p, q, u \in 1..Len(out) :
        /\ p < q
        /\ ~out[p].ok
        /\ ShardOf(out[p].op) = ShardOf(out[q].op)
        /\ ShardOf(out[u].op) # ShardOf(out[p].op)

\* ------------------------------------------------------------------------
\* C17: a worker whose send fails because its receiver was dropped aborts,
\* and the workers of the other shards are unaffected: a worker whose
\* receiver is alive does not abort (no tier has the threshold 0 here).
\* ------------------------------------------------------------------------
C17_SendFailureIsolated ==
    ZeroFree => \A j \in Workers : worker[j].pc = "panicked" => ~RxAlive(j)

\* ------------------------------------------------------------------------
\* C18 as stated: after the iterator is dropped every worker still runs to
\* completion, so no worker aborts (batches of keyed operations, no tier
\* with the threshold 0).
\* ------------------------------------------------------------------------
C18_DropLeavesWorkersRunning ==
    (dropped /\ ZeroFree /\ AllKeyed) => NoAbort

\* C18: dropping the iterator sends nothing to the workers, the drop itself
\* changes no worker; but the receivers go with the iterator, so after the
\* drop nothing is written to a channel any more and a worker that comes
\* to its send aborts there.
C18_DropStopsAtNextSend ==
    [][ /\ (~dropped /\ dropped') => worker' = worker
        /\ dropped =>
              /\ chan' = chan
              /\ \A j \in Workers :
                    (worker[j].pc = "send" /\ worker'[j] # worker[j])
                        => worker'[j].pc = "panicked" ]_vars

\* The iterator was dropped and a worker has aborted at a send with
\* operations of its shard left to do, in a batch of keyed operations.
C18_Witness ==
    /\ dropped /\ ZeroFree /\ AllKeyed
    /\ \E j \in Workers :
          /\ worker[j].pc = "panicked"
          /\ worker[j].ord >= 1
          /\ worker[j].i + 1 < Len(jobs[j])

\* ------------------------------------------------------------------------
\* C19: a request for zero worker threads fails in the setter, before run
\* builds a shard or spawns a worker: the worker count is never 0, so the
\* index % threads of the partition never divides by zero, and after the
\* failed request nothing of a run exists.
\* ------------------------------------------------------------------------
C19_ZeroThreadsRejected ==
    /\ threads >= 1
    /\ phase = "running" =>
          \A i \in 0..(NumQueries - 1) : ShardOf(i) \in 0..(threads - 1)
    /\ phase = "failed" =>
          /\ jobs = <<>> /\ worker = <<>> /\ chan = <<>> /\ channels = <<>>
          /\ keys = <<>>

\* Zero threads were requested on a BatchQuery that holds operations.
C19_Witness == phase = "failed" /\ queries # <<>>

\* ------------------------------------------------------------------------
\* C20 as stated: the check of the tiers has no failure path, whatever the
\* thresholds and the counter: a worker that has taken the Mutex of its key
\* sleeps or goes on to its call, it does not abort while its receiver is
\* alive.
\* ------------------------------------------------------------------------
C20_TierCheckNeverAborts ==
    \A j \in Workers :
        (worker[j].pc = "panicked" /\ worker[j].ord >= 1) => ~RxAlive(j)

\* ------------------------------------------------------------------------
\* C21: the configuration calls are independent of their order across
\* fields.  new() gives offset 0 and concurrent mode off, and every call
\* made before run changes its own field only, to a value fixed by its
\* argument and the old value of that field: offset and threads take the
\* value given, limit appends one tier, query/queries append operations,
\* concurrent_calls switches the mode on.  Calls on different fields
\* therefore commute, and run reads the fields as the calls left them.
\* ------------------------------------------------------------------------
C21_SettersCommute ==
    /\ New => (offset = 0 /\ ~concurrent_calls /\ limits = <<>> /\ queries = <<>>)
    /\ [][ (phase = "built" /\ phase' = "built") =>
             \/ offset' # offset
                  /\ UNCHANGED <<limits, queries, threads, concurrent_calls>>
             \/ /\ \E l \in 0..2, d \in {1, 5, 10} : limits' = Append(limits, <<l, d>>)
                /\ UNCHANGED <<offset, queries, threads, concurrent_calls>>
             \/ /\ \E qs \in SeqsUpTo(QuerySet, MaxQueries) :
                      qs # <<>> /\ queries' = queries \o qs
                /\ UNCHANGED <<offset, limits, threads, concurrent_calls>>
             \/ /\ threads' # threads /\ threads' >= 1
                /\ UNCHANGED <<offset, limits, queries, concurrent_calls>>
             \/ /\ ~concurrent_calls /\ concurrent_calls'
                /\ UNCHANGED <<offset, limits, queries, threads>> ]_vars
    /\ [][ (phase = "built" /\ phase' = "running") =>
             /\ UNCHANGED config
             /\ \A k \in DOMAIN keys' : keys'[k] = offset ]_vars

\* run was invoked on a BatchQuery on which every kind of call was made:
\* no field has the value new() gave it, and there are two tiers.
C21_Witness ==
    /\ phase = "running"
    /\ offset # 0 /\ Len(limits) = 2 /\ Len(queries) >= 2 /\ concurrent_calls
    /\ keys # <<>>

\* ------------------------------------------------------------------------
\* C22: the partition puts the operation at position i into shard i mod T
\* and keeps the order of the positions inside a shard: shard j holds the
\* positions j, j + T, j + 2T, ... below N, and every position is in
\* exactly one shard, once.
\* ------------------------------------------------------------------------
C22_PartitionRoundRobin ==
    phase = "running" =>
        /\ DOMAIN jobs = 0..(threads - 1)
        /\ \A j \in DOMAIN jobs :
              /\ \A p \in 1..Len(jobs[j]) : jobs[j][p] = j + (p - 1) * threads
              /\ j + Len(jobs[j]) * threads >= NumQueries
              /\ \A p \in 1..Len(jobs[j]) : jobs[j][p] < NumQueries
        /\ \A i \in 0..(NumQueries - 1) :
              Cardinality({ <<j, p>> \in (DOMAIN jobs) \X (1..NumQueries) :
                              p <= Len(jobs[j]) /\ jobs[j][p] = i }) = 1

\* A batch with more operations than threads was partitioned into more
\* than one shard, one of them with two operations.
C22_Witness ==
    /\ phase = "running"
    /\ threads >= 2
    /\ NumQueries > threads
    /\ \E j \in DOMAIN jobs : Len(jobs[j]) >= 2 /\ jobs[j][2] = jobs[j][1] + threads

\* ------------------------------------------------------------------------
\* C23: a worker and a channel are created for the non-empty shards only.
\* After run the workers are those of the shards 0 .. min(T, N) - 1, never
\* more than the configured threads; until the first poll the iterator
\* holds one channel per worker, and the channel at position j is always
\* the one of shard j.
\* ------------------------------------------------------------------------
MinTN == IF threads < NumQueries THEN threads ELSE NumQueries

C23_OnePerNonEmptyShard ==
    phase = "running" =>
        /\ Workers = 0..(MinTN - 1)
        /\ Cardinality(Workers) = MinTN /\ MinTN <= threads
        /\ \A j \in DOMAIN jobs : (jobs[j] # <<>>) <=> (j \in Workers)
        /\ ret = "none" => Len(channels) = Cardinality(Workers)
        /\ \A p \in 1..Len(channels) : channels[p] = p - 1

\* run was invoked with fewer operations than threads: a shard is empty,
\* and nothing was polled yet.
C23_Witness ==
    /\ phase = "running" /\ ret = "none"
    /\ NumQueries >= 1 /\ NumQueries < threads
    /\ \E j \in DOMAIN jobs : jobs[j] = <<>> /\ worker[j].pc = "none"

\* ------------------------------------------------------------------------
\* C24: after the registry scan there is a counter for a key exactly when
\* an operation of the batch carries that key, one per key, started at the
\* offset (it is the offset plus the calls counted since); so the lookup
\* of the key of any operation of any shard finds its counter.
\* ------------------------------------------------------------------------
C24_CounterIffReferenced ==
    phase = "running" =>
        /\ \A k \in {"A", "B", NoKey} :
              (k \in DOMAIN keys) <=>
                  (k # NoKey /\ \E n \in 1..Len(queries) : queries[n].api_key = k)
        /\ \A k \in DOMAIN keys : keys[k] = offset + made[k]
        /\ \A j \in DOMAIN jobs : \A p \in 1..Len(jobs[j]) :
              queries[jobs[j][p] + 1].api_key # NoKey
                  => queries[jobs[j][p] + 1].api_key \in DOMAIN keys

\* A batch with two keys and a keyless operation, run with an offset; a
\* worker has looked a counter up and counted a call on it.
C24_Witness ==
    /\ phase = "running" /\ offset # 0
    /\ Cardinality(DOMAIN keys) = 2
    /\ \E n \in 1..Len(queries) : queries[n].api_key = NoKey
    /\ \E k \in DOMAIN keys : made[k] >= 1

\* ------------------------------------------------------------------------
\* C25: workers on different keys do not block one another.  A worker
\* whose next operation carries a key whose Mutex is free (and sound) can
\* take it, whoever holds the Mutex of another key, be it in a cooldown or
\* in a fetch.
\* ------------------------------------------------------------------------
C25_OtherKeysDoNotBlock ==
    \A j \in Workers :
        LET k == queries[jobs[j][worker[j].i + 1] + 1].api_key IN
        (/\ phase = "running" /\ worker[j].pc = "loop"
         /\ worker[j].i < Len(jobs[j])
         /\ k # NoKey /\ holder[k] = -1 /\ ~poisoned[k])
            => ENABLED Lock(j)

\* A worker is about to take the free Mutex of its key while another
\* worker holds the Mutex of another key, asleep in a cooldown.
C25_Witness ==
    \E j, h \in Workers :
        /\ j # h
        /\ AtOperation(j) /\ KeyOf(Current(j)) # NoKey
        /\ holder[KeyOf(Current(j))] = -1 /\ ~poisoned[KeyOf(Current(j))]
        /\ worker[h].pc = "sleep"
        /\ KeyOf(Current(h)) # KeyOf(Current(j))
        /\ holder[KeyOf(Current(h))] = h

\* ------------------------------------------------------------------------
\* C26 as stated: a Mutex is released on every exit path of its holder, the
\* abort on a failed send included, so that no worker fails at its lock
\* because the last holder has aborted (no tier has the threshold 0 here).
\* A worker that aborts at lock() has counted no call for its operation.
\* ------------------------------------------------------------------------
C26_NoFailureFromAbortedHolder ==
    ZeroFree =>
        \A j \in Workers : ~(worker[j].pc = "panicked" /\ worker[j].ord = 0)

\* ------------------------------------------------------------------------
\* Steps of the consumer
\* ------------------------------------------------------------------------
\* A step of try_next or next: after run every step of a worker changes
\* that worker, a poll changes none.
PollStep == phase = "running" /\ phase' = "running" /\ worker' = worker /\ dropped' = dropped

\* The shard whose channel is at the cursor.
AtCursor == channels[index + 1]

\* ------------------------------------------------------------------------
\* C27: a poll that finds an item ready in the channel at the cursor
\* returns the oldest item of that channel, moves the cursor to
\* (idx + 1) mod len(channels) and leaves the channel list as it was.
\* ------------------------------------------------------------------------
C27_ItemAdvancesCursor ==
    [][ (PollStep /\ channels # <<>> /\ chan[AtCursor] # <<>>) =>
            /\ ret' = "item"
            /\ out' = Append(out, chan[AtCursor][1])
            /\ chan' = [chan EXCEPT ![AtCursor] = Tail(chan[AtCursor])]
            /\ index' = (index + 1) % Len(channels)
            /\ channels' = channels ]_vars

\* The cursor has wrapped around two channels: the last item came from the
\* channel at the last position and the cursor is back at 0.
C27_Witness ==
    /\ ret = "item" /\ Len(channels) = 2 /\ index = 0
    /\ Len(out) >= 2
    /\ out[Len(out)].op % threads = 1

\* ------------------------------------------------------------------------
\* C28: a poll that finds the channel at the cursor closed and empty cuts
\* the channel list down to its first idx entries, the closed channel and
\* all after it are gone; with no channel left it reports exhausted, else
\* it goes on in the same call with the cursor at 0, where it takes an
\* item, reports not-ready, or finds channel 0 closed too and ends.
\* ------------------------------------------------------------------------
C28_ClosedTruncates ==
    [][ (PollStep /\ channels # <<>> /\ chan[AtCursor] = <<>> /\ Ended(AtCursor)) =>
            LET t == [p \in 1..index |-> channels[p]] IN
            IF index = 0
            THEN ret' = "exhausted" /\ channels' = <<>> /\ out' = out /\ chan' = chan
            ELSE IF chan[t[1]] # <<>>
            THEN /\ ret' = "item" /\ channels' = t
                 /\ index' = 1 % index
                 /\ out' = Append(out, chan[t[1]][1])
            ELSE IF Ended(t[1])
            THEN ret' = "exhausted" /\ channels' = <<>> /\ out' = out /\ chan' = chan
            ELSE /\ ret' = "notready" /\ channels' = t /\ index' = 0
                 /\ out' = out /\ chan' = chan ]_vars

\* The list was cut while a channel behind the closed one was still open:
\* channels are left, and a worker that has not ended is no longer among
\* them.
C28_Witness ==
    /\ channels # <<>>
    /\ \E j \in Workers :
          /\ ~Ended(j)
          /\ \A p \in 1..Len(channels) : channels[p] # j

\* ------------------------------------------------------------------------
\* C29: a poll that finds the channel at the cursor open and empty reports
\* not-ready and leaves the cursor, the channel list and the pending items
\* of every channel as they were.
\* ------------------------------------------------------------------------
C29_EmptyLeavesAll ==
    [][ (PollStep /\ channels # <<>> /\ chan[AtCursor] = <<>> /\ ~Ended(AtCursor)) =>
            /\ ret' = "notready"
            /\ UNCHANGED <<index, channels, chan, out>> ]_vars

\* A poll reported not-ready at a cursor that is not 0, after items were
\* returned, while another channel has an item pending.
C29_Witness ==
    /\ ret = "notready" /\ index > 0 /\ out # <<>>
    /\ chan[AtCursor] = <<>>
    /\ \E j \in Workers : chan[j] # <<>>

\* ------------------------------------------------------------------------
\* C30: exhausted is terminal.  Once a poll has reported exhausted the
\* channel list is empty and stays empty, every later poll reports
\* exhausted again and no item is returned any more.
\* ------------------------------------------------------------------------
C30_DrainedIsTerminal ==
    /\ [](ret = "exhausted" => channels = <<>>)
    /\ [][ ret = "exhausted" =>
             ret' = "exhausted" /\ channels' = <<>> /\ out' = out ]_vars
    /\ [][ (PollStep /\ channels = <<>>) => ret' = "exhausted" ]_vars

\* Exhausted was reported after items were returned, and a worker is still
\* at work.
C30_Witness ==
    /\ ret = "exhausted" /\ out # <<>>
    /\ \E j \in Workers : ~Ended(j)

\* ------------------------------------------------------------------------
\* C31: whenever the iterator holds channels the cursor is a position of
\* the list, 0 <= idx < len(channels), so channels[idx] is in bounds; and
\* the list only shrinks: after run every step leaves a prefix of it.
\* ------------------------------------------------------------------------
C31_CursorInBounds ==
    /\ [](channels # <<>> => (0 <= index /\ index < Len(channels)))
    /\ [][ phase = "running" =>
             /\ Len(channels') <= Len(channels)
             /\ \A p \in 1..Len(channels') : channels'[p] = channels[p] ]_vars

\* The cursor is at the last position of a list of two channels, after an
\* item was returned.
C31_Witness ==
    /\ Len(channels) = 2 /\ index = Len(channels) - 1
    /\ ret = "item"

\* ------------------------------------------------------------------------
\* C32 as stated: with every fetch returning and the iterator kept alive,
\* every worker ends by returning after the last operation of its shard;
\* none ends by aborting before it (no tier has the threshold 0 here).
\* ------------------------------------------------------------------------
C32_WorkersEndAfterLastOperation ==
    (ZeroFree /\ ~dropped) =>
        \A j \in Workers : Ended(j) => worker[j].i = Len(jobs[j])

\* ------------------------------------------------------------------------
\* Channels the iterator has removed
\* ------------------------------------------------------------------------
\* The receiver of worker j is no longer in the list of the iterator.
Removed(j) == \A p \in 1..Len(channels) : channels[p] # j

\* C33 as stated: when every operation has a key and no worker aborts,
\* every channel the truncation removes is closed (its worker has ended)
\* and drained.
C33_RemovedAreClosedAndDrained ==
    (AllKeyed /\ NoAbort) =>
        \A j \in Workers : Removed(j) => (Ended(j) /\ chan[j] = <<>>)

\* C33: when every operation has a key and no worker aborts, a channel the
\* truncation removes holds no undelivered result and its worker has no
\* result left to send: the worker has sent the result of the last
\* operation of its shard, though it may not have returned yet.
C33_RemovedAreDrained ==
    (AllKeyed /\ NoAbort) =>
        \A j \in Workers :
            Removed(j) =>
                /\ chan[j] = <<>>
                /\ worker[j].i = Len(jobs[j])
                /\ worker[j].pc \in {"loop", "done"}

\* In a batch of keyed operations a channel was removed while others were
\* kept, and one was removed whose worker has not returned yet.
C33_Witness ==
    /\ AllKeyed /\ NoAbort
    /\ \E j \in Workers : Removed(j) /\ worker[j].pc = "loop"

\* ------------------------------------------------------------------------
\* C34: no update of a counter is lost.  A step changes the counter of a
\* key by nothing or by exactly +1, the +1 being made by a worker that
\* goes on to its send with no other worker holding the key's Mutex; and
\* once every worker has returned the counter of key k is the offset plus
\* the number of operations of the batch that carry k.
\* ------------------------------------------------------------------------
Referencing(k) == Cardinality({ n \in 1..Len(queries) : queries[n].api_key = k })

C34_NoLostUpdate ==
    /\ []((phase = "running" /\ \A j \in Workers : worker[j].pc = "done") =>
             \A k \in DOMAIN keys : keys[k] = offset + Referencing(k))
    /\ [][ phase = "running" =>
             \A k \in DOMAIN keys :
                \/ keys'[k] = keys[k]
                \/ /\ keys'[k] = keys[k] + 1
                   /\ \E j \in Workers :
                         /\ worker[j].pc \in {"loop", "sleep"}
                         /\ worker'[j].pc = "send"
                         /\ queries[jobs[j][worker[j].i + 1] + 1].api_key = k
                         /\ holder[k] \in {-1, j}
                         /\ \A h \in Workers \ {j} : worker'[h] = worker[h] ]_vars

\* Every worker has returned after two workers counted calls on the same
\* key, which was started at an offset.
C34_Witness ==
    /\ phase = "running" /\ offset # 0
    /\ \A j \in Workers : worker[j].pc = "done"
    /\ \E k \in DOMAIN keys :
          /\ keys[k] >= offset + 2
          /\ \E j, h \in Workers :
                /\ j # h
                /\ \E p \in 1..Len(jobs[j]) : queries[jobs[j][p] + 1].api_key = k
                /\ \E p \in 1..Len(jobs[h]) : queries[jobs[h][p] + 1].api_key = k

\* ------------------------------------------------------------------------
\* C35: the cooldowns of a key depend on the values of its counter only,
\* not on the schedule.  The call of rank n on a key (n = 1 .. m), whoever
\* makes it and whenever, reads the value v = offset + n - 1, and when it
\* leaves the check it has slept exactly once for every tier of threshold
\* t > 0 with v # 0 and v mod t = 0 and for no other tier; with every
\* worker returned, m calls were counted on a key carried by m operations.
\* ------------------------------------------------------------------------
TimesIn(t, sq) == Cardinality({ n \in 1..Len(sq) : sq[n] = t })

C35_CooldownsByCounterValue ==
    /\ []((phase = "running" /\ \A j \in Workers : worker[j].pc = "done") =>
             \A k \in DOMAIN made : made[k] = Referencing(k))
    /\ [][ phase = "running" =>
             \A j \in Workers :
                (worker[j].pc \in {"loop", "sleep"} /\ worker'[j].pc = "send") =>
                    LET k == queries[jobs[j][worker[j].i + 1] + 1].api_key
                        v == worker'[j].pre
                    IN /\ made'[k] = made[k] + 1
                       /\ worker'[j].ord = made'[k]
                       /\ v = offset + worker'[j].ord - 1
                       /\ \A t \in 1..Len(limits) :
                             limits[t][1] > 0 =>
                                 TimesIn(t, worker'[j].slept) =
                                     IF v # 0 /\ v % limits[t][1] = 0 THEN 1 ELSE 0 ]_vars

\* A worker leaves the check after a cooldown, for a call that is not the
\* first on its key, the earlier calls on the key having been made by
\* another worker.
C35_Witness ==
    \E j \in Workers :
        /\ worker[j].pc = "send" /\ worker[j].slept # <<>>
        /\ worker[j].ord >= 2 /\ worker[j].i = 0

\* ------------------------------------------------------------------------
\* C36: in both modes a worker sleeps its cooldown with the Mutex of the
\* key in its hands.  While it is asleep no other worker enters or leaves
\* the check of that key, and the counter of the key does not move.
\* ------------------------------------------------------------------------
C36_CooldownUnderLock ==
    /\ [](\A j \in Workers :
             worker[j].pc = "sleep" =>
                 holder[queries[jobs[j][worker[j].i + 1] + 1].api_key] = j)
    /\ [][ \A j \in Workers :
              (worker[j].pc = "sleep" /\ worker'[j] = worker[j]) =>
                  LET k == queries[jobs[j][worker[j].i + 1] + 1].api_key IN
                  /\ keys'[k] = keys[k]
                  /\ made'[k] = made[k]
                  /\ \A h \in Workers \ {j} :
                        (/\ worker[h].i < Len(jobs[h])
                         /\ queries[jobs[h][worker[h].i + 1] + 1].api_key = k
                         /\ worker[h].pc = "loop")
                            => worker'[h] = worker[h] ]_vars

\* In concurrent mode a worker is asleep in a cooldown while another
\* worker stands before the check of the same key.
C36_Witness ==
    /\ concurrent_calls
    /\ \E j, h \in Workers :
          /\ j # h
          /\ worker[j].pc = "sleep"
          /\ AtOperation(h)
          /\ KeyOf(Current(h)) = KeyOf(Current(j))

\* ------------------------------------------------------------------------
\* C37: the workers cannot deadlock.  A worker holds the Mutex of one key
\* at most, and only while it is in the check or the call of an operation
\* of that key, where it waits for no other Mutex; so whenever a worker
\* has not ended, some worker can take a step.
\* ------------------------------------------------------------------------
C37_NoDeadlock ==
    /\ \A j \in Workers :
          /\ Cardinality({ k \in DOMAIN holder : holder[k] = j }) <= 1
          /\ \A k \in DOMAIN holder :
                holder[k] = j =>
                    /\ worker[j].pc \in {"sleep", "send"}
                    /\ queries[jobs[j][worker[j].i + 1] + 1].api_key = k
    /\ (\E j \in Workers : ~Ended(j)) =>
          ENABLED (\E j \in Shards :
                      Lock(j) \/ LockPoisoned(j) \/ Wake(j) \/ Send(j)
                        \/ Skip(j) \/ Exit(j))

\* Of three workers one waits for the Mutex of its key, held by a worker
\* asleep in a cooldown.
C37_Witness ==
    \E j, h \in Workers :
        /\ j # h
        /\ AtOperation(j) /\ KeyOf(Current(j)) # NoKey
        /\ holder[KeyOf(Current(j))] = h
        /\ worker[h].pc = "sleep"
        /\ Cardinality(Workers) >= 3

\* ------------------------------------------------------------------------
\* C38: run on a batch of zero operations spawns no worker and creates no
\* channel, for any number of threads, and the first poll of the iterator,
\* by try_next or by next, reports exhausted: next returns, it does not
\* yield and wait.
\* ------------------------------------------------------------------------
C38_EmptyBatchExhausted ==
    /\ []((phase = "running" /\ queries = <<>>) =>
             /\ \A j \in DOMAIN worker : worker[j].pc = "none"
             /\ channels = <<>>
             /\ out = <<>>
             /\ cpc = "idle"
             /\ ret \in {"none", "exhausted"})
    /\ [][ (PollStep /\ queries = <<>>) => (ret' = "exhausted" /\ cpc' = "idle") ]_vars

\* The iterator of an empty batch run with two threads has reported
\* exhausted.
C38_Witness ==
    /\ phase = "running" /\ queries = <<>> /\ threads >= 2
    /\ ret = "exhausted"

\* ------------------------------------------------------------------------
\* C39: as long as the iterator has removed no channel, delivery is round
\* robin over the positions: every channel before the cursor has delivered
\* exactly one result more than every channel at or after the cursor (and
\* the channels on the same side of the cursor have delivered equally
\* many).
\* ------------------------------------------------------------------------
Delivered(j) ==
    Cardinality({ n \in 1..Len(out) : \E p \in 1..Len(jobs[j]) : jobs[j][p] = out[n].op })

C39_RoundRobinDelivery ==
    (phase = "running" /\ channels # <<>> /\ \A j \in Workers : ~Removed(j)) =>
        \A p, q \in 1..Len(channels) :
            Delivered(channels[p]) =
                Delivered(channels[q])
                  + (IF p <= index THEN 1 ELSE 0) - (IF q <= index THEN 1 ELSE 0)

\* Three results were returned from two channels, none was removed, and
\* the cursor is on the second.
C39_Witness ==
    /\ phase = "running" /\ Len(channels) = 2 /\ \A j \in Workers : ~Removed(j)
    /\ index = 1 /\ Len(out) = 3

====
